---- MODULE Spec2Model ----
(***************************************************************************)
(* Account-balance transfer under concurrent access.                       *)
(*                                                                         *)
(* The model follows api.AccountHandlers (GetAccount, SubmitTransaction)   *)
(* running on storage.InMemoryStorage through the FlakyMemory wrapper of   *)
(* the consistency test, whose transaction Set may fail.  Each request is  *)
(* a goroutine; pc[p] is the position of goroutine p inside its handler.   *)
(*                                                                         *)
(* Balance strings are decimal numerals.  A numeral is modelled by the     *)
(* integer it denotes (n) and its number of fractional digits (f), all of  *)
(* which are zero; a string that is no numeral has ok = FALSE.  The        *)
(* amounts of the model are whole units, which big.Float represents        *)
(* exactly at a 64 bit mantissa, so Add, Sub and Cmp are the integer       *)
(* operations on this domain.                                              *)
(***************************************************************************)
EXTENDS Integers, Sequences, FiniteSets, TLC

\* ---- bounds -------------------------------------------------------------
NumAccounts == 2      \* accounts the test creates before the requests
InitialBalance == 2   \* whole units on each account at the start
MaxAmount == 2        \* largest amount a request asks for

\* ---- program constants --------------------------------------------------
FracDigits == 19      \* SPRINTF_FORMAT = "%.19f"
TestFracDigits == 9   \* "1000.000000000", "1.000000000" in the tests

\* the concurrent requests: two goroutines of the test's numConcurrentTransactions
Procs == {1, 2}
Accounts == 1..NumAccounts
\* ids a request may name: the accounts and one id that was never created
Ids == 1..(NumAccounts + 1)

\* ---- strings and decimals -----------------------------------------------
Str(n, f) == [ok |-> TRUE, n |-> n, f |-> f]
BadStr == [ok |-> FALSE, n |-> 0, f |-> 0]

\* big.ParseFloat(s, 10, PRECISION, big.ToNearestEven): (f, _, err); f is a
\* pointer, nil (<<>>) when err is set.
ParseFloat(s) ==
    IF s.ok THEN [f |-> <<s.n>>, err |-> FALSE]
            ELSE [f |-> <<>>, err |-> TRUE]

\* fmt.Sprintf(SPRINTF_FORMAT, x) for a *big.Float x
Sprintf(x) == Str(x, FracDigits)

\* (x *big.Float).Cmp(y) < 0
CmpLess(x, y) == x < y

\* ---- requests and responses ---------------------------------------------
AmountStrings ==
    {BadStr} \cup {Str(n, TestFracDigits) : n \in (0 - 1)..MaxAmount}

TransactionRequest(s, d, a) ==
    [op |-> "transfer", src |-> s, dst |-> d, amount |-> a]
AccountRequestGet(id) ==
    [op |-> "get", src |-> id, dst |-> id, amount |-> BadStr]
NoRequest == [op |-> "none", src |-> 0, dst |-> 0, amount |-> BadStr]

StatusOK == 200
StatusBadRequest == 400
StatusNotFound == 404
StatusInternalServerError == 500

\* what the handler wrote to the ResponseWriter; body is the balance string
\* of an AccountResponse, <<>> when there is none
Response(code, msg) == [code |-> code, msg |-> msg, body |-> <<>>]
NoResponse == Response(0, "")

\* ---- the store and the transaction overlay --------------------------------
\* map[Key]Value: a function whose domain is the set of keys present
MapSet(m, k, v) == [x \in (DOMAIN m) \cup {k} |-> IF x = k THEN v ELSE m[x]]
MapDelete(m, k) == [x \in (DOMAIN m) \ {k} |-> m[x]]

\* (variant: a missing key reads as the zero value of the map, with no error)
StorageGet_ZeroValue(store, k) ==
    IF k \in DOMAIN store THEN [value |-> store[k], err |-> FALSE]
                          ELSE [value |-> BadStr, err |-> FALSE]

\* InMemoryStorage.Get: (value, err)
StorageGet(store, k) ==
    IF k \in DOMAIN store THEN [value |-> store[k], err |-> FALSE]
                          ELSE [value |-> Str(0, 0), err |-> TRUE]

\* a transaction: begun is FALSE while tx is still nil; transactions is
\* map[Key]*Value, a pointer being <<v>> or <<>> (nil, the tombstone)
NoTx == [begun |-> FALSE, transactions |-> [k \in {} |-> <<>>]]
\* InMemoryStorage.Begin
BeginTx == [begun |-> TRUE, transactions |-> [k \in {} |-> <<>>]]

\* InMemoryStorageTransaction.Set (tx.lock is taken and released inside the
\* call; a transaction belongs to one handler, so the lock is never contended)
TxSet(t, k, v) == [t EXCEPT !.transactions = MapSet(t.transactions, k, <<v>>)]

\* (variant: Rollback leaves the overlay as it is)
TxRollback_Keeps(t) == t

\* InMemoryStorageTransaction.Rollback: clear(tx.transactions)
TxRollback(t) == [t EXCEPT !.transactions = [k \in {} |-> <<>>]]

\* one iteration of the range loop of InMemoryStorageTransaction.Commit
CommitEntry(store, t, k) ==
    IF t.transactions[k] = <<>> THEN MapDelete(store, k)
                                ELSE MapSet(store, k, t.transactions[k][1])

VARIABLES
    data,                \* InMemoryStorage.data
    lock,                \* AccountHandlers.lock: w the writer (0: none), r the readers
    pc,                  \* position of each request in its handler
    req,                 \* the decoded request body
    resp,                \* what was written to the ResponseWriter
    sourceBalance,       \* locals of SubmitTransaction
    destinationBalance,
    newSourceBalance,
    newDestinationBalance,
    tx,                  \* the transaction begun by the request
    pending              \* keys the range loop of Commit has still to visit

vars == <<data, lock, pc, req, resp, sourceBalance, destinationBalance,
          newSourceBalance, newDestinationBalance, tx, pending>>

locals == <<sourceBalance, destinationBalance, newSourceBalance,
            newDestinationBalance>>

\* the test stores initialBalance on every account, then starts the requests
Init ==
    /\ data = [k \in Accounts |-> Str(InitialBalance, TestFracDigits)]
    /\ lock = [w |-> 0, r |-> {}]
    /\ pc = [p \in Procs |-> "idle"]
    /\ req = [p \in Procs |-> NoRequest]
    /\ resp = [p \in Procs |-> NoResponse]
    /\ sourceBalance = [p \in Procs |-> BadStr]
    /\ destinationBalance = [p \in Procs |-> BadStr]
    /\ newSourceBalance = [p \in Procs |-> 0]
    /\ newDestinationBalance = [p \in Procs |-> 0]
    /\ tx = [p \in Procs |-> NoTx]
    /\ pending = [p \in Procs |-> {}]

\* ---- sync.RWMutex ---------------------------------------------------------
\* (variant: the guard excludes readers only, two writers may hold it)
CanLock_ReadersOnly == lock.r = {}

\* Lock returns once no goroutine holds the mutex for writing or reading
CanLock == lock.w = 0 /\ lock.r = {}
\* (variant: RLock does not wait for a writer)
CanRLock_Always == TRUE

\* RLock returns once no goroutine holds the mutex for writing
CanRLock == lock.w = 0

\* ---- SubmitTransaction ----------------------------------------------------
MsgInvalidAmount == "Invalid transaction amount"
MsgSameAccount == "Source and destination accounts cannot be the same"
MsgSourceNotFound == "Source account not found"
MsgDestinationNotFound == "Destination account not found"
MsgInsufficientFunds == "insufficient funds in source account"
MsgSourceWrite == "Failed to update source account balance"
MsgDestinationWrite == "Failed to update destination account balance"
MsgPanic == "panic: nil pointer dereference"

\* (variant: < 0 in place of <= 0, a zero amount passes)
InvalidAmount_AllowsZero(a) ==
    LET parsed == ParseFloat(a)
    IN  parsed.err \/ CmpLess(parsed.f[1], 0)

\* err != nil || amountFloat.Cmp(big.NewFloat(0.0)) <= 0
InvalidAmount(a) ==
    LET parsed == ParseFloat(a)
    IN  parsed.err \/ ~CmpLess(0, parsed.f[1])

\* (variant: the self-transfer check is missing)
SameAccount_Never(r) == FALSE

\* req.SourceAccountId == req.DestinationAccountId
SameAccount(r) == r.src = r.dst

\* (variant: <= 0 in place of < 0, the whole balance cannot be sent)
InsufficientFunds_Inclusive(balance, amount) == ~CmpLess(amount, balance)

\* sourceBalanceAmount.Cmp(amountFloat) < 0
InsufficientFunds(balance, amount) == CmpLess(balance, amount)

Amount(p) == ParseFloat(req[p].amount).f[1]

\* (variant: the two account ids are compared before the amount is looked at)
SubmitTransaction_SelfFirst(p) ==
    /\ pc[p] = "idle"
    /\ \E s \in Ids, d \in Ids, a \in AmountStrings :
         LET r == TransactionRequest(s, d, a)
         IN  /\ req' = [req EXCEPT ![p] = r]
             /\ IF SameAccount(r)
                  THEN /\ resp' = [resp EXCEPT ![p] =
                                     Response(StatusBadRequest, MsgSameAccount)]
                       /\ pc' = [pc EXCEPT ![p] = "done"]
                  ELSE IF InvalidAmount(a)
                  THEN /\ resp' = [resp EXCEPT ![p] =
                                     Response(StatusBadRequest, MsgInvalidAmount)]
                       /\ pc' = [pc EXCEPT ![p] = "done"]
                  ELSE /\ resp' = resp
                       /\ pc' = [pc EXCEPT ![p] = "lock"]
    /\ UNCHANGED <<data, lock, locals, tx, pending>>

\* the request is decoded and validated; nothing shared is touched before
\* h.lock.Lock()
SubmitTransaction(p) ==
    /\ pc[p] = "idle"
    /\ \E s \in Ids, d \in Ids, a \in AmountStrings :
         LET r == TransactionRequest(s, d, a)
         IN  /\ req' = [req EXCEPT ![p] = r]
             /\ IF InvalidAmount(a)
                  THEN /\ resp' = [resp EXCEPT ![p] =
                                     Response(StatusBadRequest, MsgInvalidAmount)]
                       /\ pc' = [pc EXCEPT ![p] = "done"]
                  ELSE IF SameAccount(r)
                  THEN /\ resp' = [resp EXCEPT ![p] =
                                     Response(StatusBadRequest, MsgSameAccount)]
                       /\ pc' = [pc EXCEPT ![p] = "done"]
                  ELSE /\ resp' = resp
                       /\ pc' = [pc EXCEPT ![p] = "lock"]
    /\ UNCHANGED <<data, lock, locals, tx, pending>>

\* (variant: the handler takes the guard for reading, h.lock.RLock())
Lock_Shared(p) ==
    /\ pc[p] = "lock"
    /\ CanRLock
    /\ lock' = [lock EXCEPT !.r = lock.r \cup {p}]
    /\ pc' = [pc EXCEPT ![p] = "get_source"]
    /\ UNCHANGED <<data, req, resp, locals, tx, pending>>

\* h.lock.Lock(); defer h.lock.Unlock()
Lock(p) ==
    /\ pc[p] = "lock"
    /\ CanLock
    /\ lock' = [lock EXCEPT !.w = p]
    /\ pc' = [pc EXCEPT ![p] = "get_source"]
    /\ UNCHANGED <<data, req, resp, locals, tx, pending>>

\* sourceBalance, err := h.storage.Get(req.SourceAccountId)
GetSource(p) ==
    /\ pc[p] = "get_source"
    /\ LET got == StorageGet(data, req[p].src)
       IN  IF got.err
             THEN /\ resp' = [resp EXCEPT ![p] =
                                Response(StatusNotFound, MsgSourceNotFound)]
                  /\ pc' = [pc EXCEPT ![p] = "unlock"]
                  /\ UNCHANGED sourceBalance
             ELSE /\ sourceBalance' = [sourceBalance EXCEPT ![p] = got.value]
                  /\ pc' = [pc EXCEPT ![p] = "get_destination"]
                  /\ UNCHANGED resp
    /\ UNCHANGED <<data, lock, req, destinationBalance, newSourceBalance,
                   newDestinationBalance, tx, pending>>

\* destinationBalance, err := h.storage.Get(req.DestinationAccountId)
GetDestination(p) ==
    /\ pc[p] = "get_destination"
    /\ LET got == StorageGet(data, req[p].dst)
       IN  IF got.err
             THEN /\ resp' = [resp EXCEPT ![p] =
                                Response(StatusNotFound, MsgDestinationNotFound)]
                  /\ pc' = [pc EXCEPT ![p] = "unlock"]
                  /\ UNCHANGED destinationBalance
             ELSE /\ destinationBalance' =
                        [destinationBalance EXCEPT ![p] = got.value]
                  /\ pc' = [pc EXCEPT ![p] = "check_funds"]
                  /\ UNCHANGED resp
    /\ UNCHANGED <<data, lock, req, sourceBalance, newSourceBalance,
                   newDestinationBalance, tx, pending>>

\* the balances are parsed with the error dropped, so a stored string that is
\* no decimal gives a nil *big.Float and the first method call on it panics:
\* Cmp for the source, Add for the destination, which is reached only when
\* the funds suffice; otherwise the funds are checked and the new balances
\* computed
CheckFunds(p) ==
    /\ pc[p] = "check_funds"
    /\ LET sourceBalanceAmount == ParseFloat(sourceBalance[p])
           destinationBalanceAmount == ParseFloat(destinationBalance[p])
       IN  IF sourceBalanceAmount.f = <<>>
             THEN /\ resp' = [resp EXCEPT ![p] = Response(0, MsgPanic)]
                  /\ pc' = [pc EXCEPT ![p] = "unlock"]
                  /\ UNCHANGED <<newSourceBalance, newDestinationBalance>>
             ELSE IF InsufficientFunds(sourceBalanceAmount.f[1], Amount(p))
             THEN /\ resp' = [resp EXCEPT ![p] =
                                Response(StatusBadRequest, MsgInsufficientFunds)]
                  /\ pc' = [pc EXCEPT ![p] = "unlock"]
                  /\ UNCHANGED <<newSourceBalance, newDestinationBalance>>
             ELSE IF destinationBalanceAmount.f = <<>>
             THEN /\ resp' = [resp EXCEPT ![p] = Response(0, MsgPanic)]
                  /\ pc' = [pc EXCEPT ![p] = "unlock"]
                  /\ UNCHANGED <<newSourceBalance, newDestinationBalance>>
             ELSE /\ newSourceBalance' = [newSourceBalance EXCEPT ![p] =
                                            sourceBalanceAmount.f[1] - Amount(p)]
                  /\ newDestinationBalance' = [newDestinationBalance EXCEPT ![p] =
                                            destinationBalanceAmount.f[1] + Amount(p)]
                  /\ pc' = [pc EXCEPT ![p] = "begin"]
                  /\ UNCHANGED resp
    /\ UNCHANGED <<data, lock, req, sourceBalance, destinationBalance, tx, pending>>

\* tx := h.storage.Begin(); defer tx.Rollback()
Begin(p) ==
    /\ pc[p] = "begin"
    /\ tx' = [tx EXCEPT ![p] = BeginTx]
    /\ pc' = [pc EXCEPT ![p] = "set_source"]
    /\ UNCHANGED <<data, lock, req, resp, locals, pending>>

\* (variant: the source leg is written to the store at once, h.storage.Set of
\* the README's simple approach, where the fault leaves the store alone)
SetSource_WriteThrough(p) ==
    /\ pc[p] = "set_source"
    /\ \E fault \in BOOLEAN :
         IF fault
           THEN /\ resp' = [resp EXCEPT ![p] =
                              Response(StatusInternalServerError, MsgSourceWrite)]
                /\ pc' = [pc EXCEPT ![p] = "rollback"]
                /\ UNCHANGED <<tx, data>>
           ELSE /\ data' = MapSet(data, req[p].src, Sprintf(newSourceBalance[p]))
                /\ tx' = [tx EXCEPT ![p] =
                            TxSet(tx[p], req[p].src, Sprintf(newSourceBalance[p]))]
                /\ pc' = [pc EXCEPT ![p] = "set_destination"]
                /\ UNCHANGED resp
    /\ UNCHANGED <<lock, req, locals, pending>>

\* (variant: the return after the failed source write is missing, the handler
\* goes on to the destination leg)
SetSource_NoReturn(p) ==
    /\ pc[p] = "set_source"
    /\ \E fault \in BOOLEAN :
         /\ IF fault
              THEN /\ resp' = [resp EXCEPT ![p] =
                                 Response(StatusInternalServerError, MsgSourceWrite)]
                   /\ UNCHANGED tx
              ELSE /\ tx' = [tx EXCEPT ![p] =
                               TxSet(tx[p], req[p].src, Sprintf(newSourceBalance[p]))]
                   /\ UNCHANGED resp
         /\ pc' = [pc EXCEPT ![p] = "set_destination"]
    /\ UNCHANGED <<data, lock, req, locals, pending>>

\* err = tx.Set(req.SourceAccountId, ...): FlakyMemoryTransaction.Set either
\* fails before it reaches the transaction or buffers the write
SetSource(p) ==
    /\ pc[p] = "set_source"
    /\ \E fault \in BOOLEAN :
         IF fault
           THEN /\ resp' = [resp EXCEPT ![p] =
                              Response(StatusInternalServerError, MsgSourceWrite)]
                /\ pc' = [pc EXCEPT ![p] = "rollback"]
                /\ UNCHANGED tx
           ELSE /\ tx' = [tx EXCEPT ![p] =
                            TxSet(tx[p], req[p].src, Sprintf(newSourceBalance[p]))]
                /\ pc' = [pc EXCEPT ![p] = "set_destination"]
                /\ UNCHANGED resp
    /\ UNCHANGED <<data, lock, req, locals, pending>>

\* (variant: the destination leg is buffered under the source key)
SetDestination_SourceKey(p) ==
    /\ pc[p] = "set_destination"
    /\ \E fault \in BOOLEAN :
         IF fault
           THEN /\ resp' = [resp EXCEPT ![p] =
                              Response(StatusInternalServerError, MsgDestinationWrite)]
                /\ pc' = [pc EXCEPT ![p] = "rollback"]
                /\ UNCHANGED <<tx, pending>>
           ELSE /\ tx' = [tx EXCEPT ![p] =
                            TxSet(tx[p], req[p].src, Sprintf(newDestinationBalance[p]))]
                /\ pending' = [pending EXCEPT ![p] = DOMAIN tx'[p].transactions]
                /\ pc' = [pc EXCEPT ![p] = "commit"]
                /\ UNCHANGED resp
    /\ UNCHANGED <<data, lock, req, locals>>

\* (variant: the return after the failed destination write is missing, the
\* handler goes on to tx.Commit())
SetDestination_CommitsAnyway(p) ==
    /\ pc[p] = "set_destination"
    /\ \E fault \in BOOLEAN :
         /\ IF fault
              THEN /\ resp' = [resp EXCEPT ![p] =
                                 Response(StatusInternalServerError, MsgDestinationWrite)]
                   /\ UNCHANGED tx
              ELSE /\ tx' = [tx EXCEPT ![p] =
                               TxSet(tx[p], req[p].dst, Sprintf(newDestinationBalance[p]))]
                   /\ UNCHANGED resp
         /\ pending' = [pending EXCEPT ![p] = DOMAIN tx'[p].transactions]
         /\ pc' = [pc EXCEPT ![p] = "commit"]
    /\ UNCHANGED <<data, lock, req, locals>>

\* err = tx.Set(req.DestinationAccountId, ...); on success the handler calls
\* tx.Commit(), whose range loop starts over the keys of the overlay
SetDestination(p) ==
    /\ pc[p] = "set_destination"
    /\ \E fault \in BOOLEAN :
         IF fault
           THEN /\ resp' = [resp EXCEPT ![p] =
                              Response(StatusInternalServerError, MsgDestinationWrite)]
                /\ pc' = [pc EXCEPT ![p] = "rollback"]
                /\ UNCHANGED <<tx, pending>>
           ELSE /\ tx' = [tx EXCEPT ![p] =
                            TxSet(tx[p], req[p].dst, Sprintf(newDestinationBalance[p]))]
                /\ pending' = [pending EXCEPT ![p] = DOMAIN tx'[p].transactions]
                /\ pc' = [pc EXCEPT ![p] = "commit"]
                /\ UNCHANGED resp
    /\ UNCHANGED <<data, lock, req, locals>>

\* tx.Commit(): one iteration of `for key, value := range tx.transactions`,
\* the keys being visited in an order the runtime chooses
Commit(p) ==
    /\ pc[p] = "commit"
    /\ \E k \in pending[p] :
         /\ data' = CommitEntry(data, tx[p], k)
         /\ pending' = [pending EXCEPT ![p] = pending[p] \ {k}]
         /\ pc' = [pc EXCEPT ![p] =
                     IF pending[p] = {k} THEN "write_header" ELSE "commit"]
    /\ UNCHANGED <<lock, req, resp, locals, tx>>

\* rw.WriteHeader(http.StatusOK)
WriteHeader(p) ==
    /\ pc[p] = "write_header"
    /\ resp' = [resp EXCEPT ![p] = Response(StatusOK, "")]
    /\ pc' = [pc EXCEPT ![p] = "rollback"]
    /\ UNCHANGED <<data, lock, req, locals, tx, pending>>

\* the deferred tx.Rollback()
Rollback(p) ==
    /\ pc[p] = "rollback"
    /\ tx' = [tx EXCEPT ![p] = TxRollback(tx[p])]
    /\ pc' = [pc EXCEPT ![p] = "unlock"]
    /\ UNCHANGED <<data, lock, req, resp, locals, pending>>

\* (variant: the handler returns without h.lock.Unlock())
Unlock_KeepsGuard(p) ==
    /\ pc[p] = "unlock"
    /\ pc' = [pc EXCEPT ![p] = "done"]
    /\ sourceBalance' = [sourceBalance EXCEPT ![p] = BadStr]
    /\ destinationBalance' = [destinationBalance EXCEPT ![p] = BadStr]
    /\ newSourceBalance' = [newSourceBalance EXCEPT ![p] = 0]
    /\ newDestinationBalance' = [newDestinationBalance EXCEPT ![p] = 0]
    /\ tx' = [tx EXCEPT ![p] = NoTx]
    /\ UNCHANGED <<data, lock, req, resp, pending>>

\* the deferred h.lock.Unlock(); the handler returns and its locals, the
\* transaction among them, are gone
Unlock(p) ==
    /\ pc[p] = "unlock"
    /\ lock' = [lock EXCEPT !.w = 0]
    /\ pc' = [pc EXCEPT ![p] = "done"]
    /\ sourceBalance' = [sourceBalance EXCEPT ![p] = BadStr]
    /\ destinationBalance' = [destinationBalance EXCEPT ![p] = BadStr]
    /\ newSourceBalance' = [newSourceBalance EXCEPT ![p] = 0]
    /\ newDestinationBalance' = [newDestinationBalance EXCEPT ![p] = 0]
    /\ tx' = [tx EXCEPT ![p] = NoTx]
    /\ UNCHANGED <<data, req, resp, pending>>

\* ---- GetAccount -------------------------------------------------------------
\* the account id of the path is parsed; nothing shared is touched before
\* h.lock.RLock()
GetAccount(p) ==
    /\ pc[p] = "idle"
    /\ \E id \in Ids : req' = [req EXCEPT ![p] = AccountRequestGet(id)]
    /\ pc' = [pc EXCEPT ![p] = "rlock"]
    /\ UNCHANGED <<data, lock, resp, locals, tx, pending>>

\* h.lock.RLock(); defer h.lock.RUnlock()
RLock(p) ==
    /\ pc[p] = "rlock"
    /\ CanRLock
    /\ lock' = [lock EXCEPT !.r = lock.r \cup {p}]
    /\ pc' = [pc EXCEPT ![p] = "read_account"]
    /\ UNCHANGED <<data, req, resp, locals, tx, pending>>

\* (variant: the balance is parsed and printed again with SPRINTF_FORMAT)
ReadAccount_Reformats(p) ==
    /\ pc[p] = "read_account"
    /\ LET got == StorageGet(data, req[p].src)
       IN  resp' = [resp EXCEPT ![p] =
                      IF got.err
                        THEN Response(StatusNotFound, "key not found")
                        ELSE [code |-> StatusOK, msg |-> "",
                              body |-> <<Sprintf(ParseFloat(got.value).f[1])>>]]
    /\ pc' = [pc EXCEPT ![p] = "runlock"]
    /\ UNCHANGED <<data, lock, req, locals, tx, pending>>

\* balance, err := h.storage.Get(accountID) and the response
ReadAccount(p) ==
    /\ pc[p] = "read_account"
    /\ LET got == StorageGet(data, req[p].src)
       IN  resp' = [resp EXCEPT ![p] =
                      IF got.err
                        THEN Response(StatusNotFound, "key not found")
                        ELSE [code |-> StatusOK, msg |-> "", body |-> <<got.value>>]]
    /\ pc' = [pc EXCEPT ![p] = "runlock"]
    /\ UNCHANGED <<data, lock, req, locals, tx, pending>>

\* the deferred h.lock.RUnlock(); the handler returns
RUnlock(p) ==
    /\ pc[p] = "runlock"
    /\ lock' = [lock EXCEPT !.r = lock.r \ {p}]
    /\ pc' = [pc EXCEPT ![p] = "done"]
    /\ UNCHANGED <<data, req, resp, locals, tx, pending>>

Next ==
    \E p \in Procs :
        \/ SubmitTransaction(p)
        \/ Lock(p)
        \/ GetSource(p)
        \/ GetDestination(p)
        \/ CheckFunds(p)
        \/ Begin(p)
        \/ SetSource(p)
        \/ SetDestination(p)
        \/ Commit(p)
        \/ WriteHeader(p)
        \/ Rollback(p)
        \/ Unlock(p)
        \/ GetAccount(p)
        \/ RLock(p)
        \/ ReadAccount(p)
        \/ RUnlock(p)

Spec == Init /\ [][Next]_vars

\* ---- what the claims speak about --------------------------------------------
IsTransfer(p) == req[p].op = "transfer"

\* the number a stored balance string denotes
Balance(k) == ParseFloat(data[k]).f[1]

RECURSIVE SumBalances(_)
SumBalances(S) ==
    IF S = {} THEN 0
    ELSE LET k == CHOOSE x \in S : TRUE
         IN  Balance(k) + SumBalances(S \ {k})

TotalBalance == SumBalances(DOMAIN data)

\* request p took a step
Moved(p) == <<pc[p], pending[p]>>' # <<pc[p], pending[p]>>

\* the range loop of p's Commit has applied some entries and not all
MidCommit(p) ==
    pc[p] = "commit" /\ pending[p] # DOMAIN tx[p].transactions

Succeeded(p) == pc[p] = "done" /\ resp[p].code = StatusOK
SourceWriteFailed(p) == resp[p].msg = MsgSourceWrite
DestinationWriteFailed(p) == resp[p].msg = MsgDestinationWrite

\* ---- C1 ---------------------------------------------------------------------
\* C1: whenever no transfer is in the middle of its commit, the sum of all
\* account balances in the store equals the sum the test started with,
\* whatever transfers succeeded, were rejected or failed by an injected write
\* fault on either leg.
C1_Conservation ==
    (\A p \in Procs : ~MidCommit(p)) =>
        TotalBalance = NumAccounts * InitialBalance

\* one transfer was committed and another failed on its destination leg
C1_Witness ==
    \E p, q \in Procs :
        /\ IsTransfer(p) /\ Succeeded(p)
        /\ pc[q] = "done" /\ DestinationWriteFailed(q)

\* ---- C2 ---------------------------------------------------------------------
\* C2: when every request is the same transfer of d from X to Y and all of
\* them have returned success, X holds its initial balance less N*d and Y its
\* initial balance plus N*d, exactly, whatever the interleaving.
C2_NoLostUpdate ==
    \A x \in Accounts, y \in Accounts, d \in 1..MaxAmount :
        (\A p \in Procs :
            /\ Succeeded(p)
            /\ req[p] = TransactionRequest(x, y, Str(d, TestFracDigits)))
        => /\ data[x] = Sprintf(InitialBalance - Cardinality(Procs) * d)
           /\ data[y] = Sprintf(InitialBalance + Cardinality(Procs) * d)

\* all N requests were the same transfer and all returned success
C2_Witness ==
    \E x \in Accounts, y \in Accounts, d \in 1..MaxAmount :
        \A p \in Procs :
            /\ Succeeded(p)
            /\ req[p] = TransactionRequest(x, y, Str(d, TestFracDigits))

\* ---- C3 ---------------------------------------------------------------------
\* C3: when the source leg was buffered and the destination write then fails,
\* the transfer reports a server error, the store holds the balances both
\* accounts had before the transfer, and no later step of the transfer writes
\* to the store (no compensating write to the source).
C3_DestinationFailureRollsBack ==
    /\ [](\A p \in Procs :
            DestinationWriteFailed(p) =>
                /\ resp[p].code = StatusInternalServerError
                /\ pc[p] \in {"rollback", "unlock", "done"}
                /\ pc[p] \in {"rollback", "unlock"} =>
                      /\ data[req[p].src] = sourceBalance[p]
                      /\ data[req[p].dst] = destinationBalance[p])
    /\ [][\A p \in Procs :
            (DestinationWriteFailed(p) /\ Moved(p)) => data' = data]_vars

\* a transfer has buffered its source leg, failed on the destination leg and
\* run its deferred rollback
C3_Witness ==
    \E p \in Procs :
        /\ DestinationWriteFailed(p)
        /\ pc[p] = "unlock"
        /\ sourceBalance[p] # Sprintf(newSourceBalance[p])

\* ---- C4 ---------------------------------------------------------------------
\* the span of a transfer: from the read of the balances to the end of commit
InSpan(p) ==
    /\ IsTransfer(p)
    /\ pc[p] \in {"get_source", "get_destination", "check_funds", "begin",
                  "set_source", "set_destination", "commit"}

SharesAccount(p, q) ==
    {req[p].src, req[p].dst} \cap {req[q].src, req[q].dst} # {}

\* C4: two transfers that have an account in common are never both inside
\* their span {read both balances, validate, buffer both writes, commit}.
C4_SpansDoNotOverlap ==
    \A p \in Procs, q \in Procs :
        (p # q /\ IsTransfer(p) /\ IsTransfer(q) /\ SharesAccount(p, q))
            => ~(InSpan(p) /\ InSpan(q))

\* one transfer is in its commit while another on a common account has
\* called Lock and waits
C4_Witness ==
    \E p \in Procs, q \in Procs :
        /\ p # q /\ IsTransfer(p) /\ IsTransfer(q) /\ SharesAccount(p, q)
        /\ MidCommit(p)
        /\ pc[q] = "lock"

\* ---- C5 ---------------------------------------------------------------------
\* C5: every change of an account's stored balance is one leg of one transfer
\* being committed, applied to the value the account holds at that moment (the
\* debit takes the amount off it, the credit adds the amount to it), each leg
\* at most once; a transfer that returned success has applied both its legs.
C5_BalancesFollowOneOrder ==
    /\ [][\A k \in Ids :
            ((k \in DOMAIN data) # (k \in DOMAIN data')
                \/ (k \in DOMAIN data /\ data'[k] # data[k]))
            => \E p \in Procs :
                 /\ pc[p] = "commit"
                 /\ k \in pending[p]
                 /\ pending'[p] = pending[p] \ {k}
                 /\ k \in DOMAIN data /\ k \in DOMAIN data'
                 /\ \/ /\ k = req[p].src
                       /\ data'[k] = Sprintf(Balance(k) - Amount(p))
                    \/ /\ k = req[p].dst
                       /\ data'[k] = Sprintf(Balance(k) + Amount(p))]_vars
    /\ [](\A p \in Procs :
            (IsTransfer(p) /\ resp[p].code = StatusOK) =>
                /\ pending[p] = {}
                /\ pc[p] \in {"rollback", "unlock", "done"})

\* two committed transfers have both changed the balance of one account
C5_Witness ==
    \E p \in Procs, q \in Procs :
        /\ p # q /\ IsTransfer(p) /\ IsTransfer(q)
        /\ Succeeded(p) /\ Succeeded(q)
        /\ req[p].src = req[q].dst

\* ---- C6 ---------------------------------------------------------------------
\* C6: when the source write fails the transfer reports a server error, never
\* reaches the destination write or the commit, has nothing buffered, and the
\* store is as it was before the transfer.
C6_SourceFailureStops ==
    /\ [](\A p \in Procs :
            SourceWriteFailed(p) =>
                /\ resp[p].code = StatusInternalServerError
                /\ pc[p] \in {"rollback", "unlock", "done"}
                /\ tx[p].transactions = NoTx.transactions
                /\ pending[p] = {}
                /\ pc[p] \in {"rollback", "unlock"} =>
                      /\ data[req[p].src] = sourceBalance[p]
                      /\ data[req[p].dst] = destinationBalance[p])
    /\ [][\A p \in Procs :
            (SourceWriteFailed(p) /\ Moved(p)) => data' = data]_vars

\* a transfer failed on its source leg and returned
C6_Witness ==
    \E p \in Procs : SourceWriteFailed(p) /\ pc[p] = "done"

\* ---- C7 ---------------------------------------------------------------------
InsufficientFundsReported(p) ==
    resp[p] = Response(StatusBadRequest, MsgInsufficientFunds)

\* C7: a transfer with a valid amount between two existing accounts is
\* rejected with the insufficient-funds error exactly when the stored source
\* balance is less than the amount; a rejected transfer begins no transaction
\* and no step of it changes the store; a transfer of the whole source balance
\* is committed and leaves the source at zero.
C7_InsufficientFunds ==
    /\ [][\A p \in Procs :
            (pc[p] = "check_funds" /\ pc'[p] # "check_funds") =>
                (InsufficientFundsReported(p)' <=>
                    Balance(req[p].src) < req[p].amount.n)]_vars
    /\ [][\A p \in Procs :
            (InsufficientFundsReported(p)' /\ Moved(p)) => data' = data]_vars
    /\ [](\A p \in Procs :
            /\ InsufficientFundsReported(p) =>
                  /\ tx[p] = NoTx
                  /\ pc[p] \in {"unlock", "done"}
            /\ (pc[p] = "write_header"
                    /\ sourceBalance[p].n = req[p].amount.n) =>
                  data[req[p].src] = Sprintf(0))

\* one transfer sent the whole source balance and succeeded, another was
\* rejected for insufficient funds
C7_Witness ==
    \E p \in Procs, q \in Procs :
        /\ IsTransfer(p) /\ Succeeded(p)
        /\ req[p].amount.n = InitialBalance
        /\ data[req[p].src] = Sprintf(0)
        /\ pc[q] = "done" /\ InsufficientFundsReported(q)

\* ---- C8 ---------------------------------------------------------------------
SelfTransfer(p) == IsTransfer(p) /\ req[p].src = req[p].dst

\* C8: a transfer from an account to itself has returned a validation error
\* (the self-transfer error when its amount is a positive decimal) whatever
\* the account holds, has never held the guard or begun a transaction, and
\* its step changes neither the store nor the guard.
C8_SelfTransferRejected ==
    /\ [](\A p \in Procs :
            SelfTransfer(p) =>
                /\ pc[p] = "done"
                /\ resp[p].code = StatusBadRequest
                /\ (req[p].amount.ok /\ req[p].amount.n > 0) =>
                      resp[p].msg = MsgSameAccount
                /\ lock.w # p
                /\ tx[p] = NoTx)
    /\ [][\A p \in Procs :
            (SelfTransfer(p)' /\ Moved(p)) => (data' = data /\ lock' = lock)]_vars

\* a self-transfer of an amount the account could pay was rejected
C8_Witness ==
    \E p \in Procs :
        /\ SelfTransfer(p)
        /\ req[p].src \in DOMAIN data
        /\ req[p].amount.ok /\ req[p].amount.n > 0
        /\ req[p].amount.n <= Balance(req[p].src)
        /\ resp[p] = Response(StatusBadRequest, MsgSameAccount)

\* ---- C9 ---------------------------------------------------------------------
\* the amount of the request is no decimal, zero or negative
BadAmount(p) ==
    IsTransfer(p) /\ (~req[p].amount.ok \/ req[p].amount.n <= 0)

\* C9: a transfer whose amount is zero, negative or unparsable has returned
\* the invalid-amount validation error without reading a balance, holding the
\* guard or beginning a transaction, and its step leaves the store unchanged.
C9_InvalidAmountRejected ==
    /\ [](\A p \in Procs :
            BadAmount(p) =>
                /\ pc[p] = "done"
                /\ resp[p] = Response(StatusBadRequest, MsgInvalidAmount)
                /\ sourceBalance[p] = BadStr
                /\ destinationBalance[p] = BadStr
                /\ lock.w # p
                /\ tx[p] = NoTx)
    /\ [][\A p \in Procs :
            (BadAmount(p)' /\ Moved(p)) => data' = data]_vars

\* a zero amount and an unparsable amount between two funded accounts were
\* both rejected
C9_Witness ==
    \E p \in Procs, q \in Procs :
        /\ BadAmount(p) /\ req[p].amount.ok /\ req[p].amount.n = 0
        /\ req[p].src \in DOMAIN data /\ req[p].dst \in DOMAIN data
        /\ req[p].src # req[p].dst
        /\ BadAmount(q) /\ ~req[q].amount.ok
        /\ pc[p] = "done" /\ pc[q] = "done"

\* ---- C10 --------------------------------------------------------------------
\* a validated transfer that names an account the store does not hold
MissingAccount(p) ==
    /\ IsTransfer(p) /\ ~BadAmount(p) /\ ~SelfTransfer(p)
    /\ (req[p].src \notin DOMAIN data \/ req[p].dst \notin DOMAIN data)

\* C10: a transfer whose source or destination account is not in the store
\* ends with the account-not-found error (naming the source when the source
\* is missing, else the destination), never reaches the funds check, begins
\* no transaction, and no step of it changes the store.
C10_AccountNotFound ==
    /\ [](\A p \in Procs :
            MissingAccount(p) =>
                /\ pc[p] \in {"lock", "get_source", "get_destination",
                              "unlock", "done"}
                /\ tx[p] = NoTx
                /\ pc[p] \in {"unlock", "done"} =>
                      resp[p] = Response(StatusNotFound,
                                    IF req[p].src \notin DOMAIN data
                                      THEN MsgSourceNotFound
                                      ELSE MsgDestinationNotFound))
    /\ [][\A p \in Procs :
            (MissingAccount(p)' /\ Moved(p)) => data' = data]_vars

\* a transfer from an existing account to a missing one has returned
\* not-found and the existing account holds what it held
C10_Witness ==
    \E p \in Procs :
        /\ MissingAccount(p)
        /\ req[p].src \in DOMAIN data
        /\ pc[p] = "done"
        /\ resp[p] = Response(StatusNotFound, MsgDestinationNotFound)
        /\ data[req[p].src] = Str(InitialBalance, TestFracDigits)

\* ---- the relational backend ---------------------------------------------------
\* SqliteStorageTransaction embeds *sql.Tx: Set runs INSERT OR REPLACE inside
\* the database transaction, and Commit is (*sql.Tx).Commit, which makes all
\* of its statements visible at once or returns an error and none of them.
SqlApply(store, t) ==
    LET written == {k \in DOMAIN t.transactions : t.transactions[k] # <<>>}
        deleted == {k \in DOMAIN t.transactions : t.transactions[k] = <<>>}
    IN  [k \in ((DOMAIN store) \cup written) \ deleted |->
            IF k \in written THEN t.transactions[k][1] ELSE store[k]]

\* tx.Commit() of the handler on the relational backend; the handler drops
\* the error Commit returns
SqlCommit(p) ==
    /\ pc[p] = "commit"
    /\ \E err \in BOOLEAN :
         data' = IF err THEN data ELSE SqlApply(data, tx[p])
    /\ pending' = [pending EXCEPT ![p] = {}]
    /\ pc' = [pc EXCEPT ![p] = "write_header"]
    /\ UNCHANGED <<lock, req, resp, locals, tx>>

\* the transfers of TestSubmitTransaction_InconsistententBalance_Sqlite
NextSql ==
    \E p \in Procs :
        \/ SubmitTransaction(p)
        \/ Lock(p)
        \/ GetSource(p)
        \/ GetDestination(p)
        \/ CheckFunds(p)
        \/ Begin(p)
        \/ SetSource(p)
        \/ SetDestination(p)
        \/ SqlCommit(p)
        \/ WriteHeader(p)
        \/ Rollback(p)
        \/ Unlock(p)

SpecSql == Init /\ [][NextSql]_vars

\* ---- C11 --------------------------------------------------------------------
\* C11: a transfer that has written the success status has committed, and the
\* store holds both of its legs (checked while it still holds the guard); a
\* commit that returns an error is therefore never answered with success.
C11_SuccessOnlyIfCommitted ==
    \A p \in Procs :
        (IsTransfer(p) /\ resp[p].code = StatusOK
            /\ pc[p] \in {"rollback", "unlock"})
        => /\ data[req[p].src] = Sprintf(newSourceBalance[p])
           /\ data[req[p].dst] = Sprintf(newDestinationBalance[p])

\* ---- the transaction interface by itself ----------------------------------------
\* Callers use storage.Storage and storage.StorageTransaction directly, as the
\* tests do when they set up the accounts: each caller of Procs begins one
\* transaction on the shared store and issues calls on it, one call at a time.
\* Here pc[c] is the caller's place in the life of its transaction ("idle"
\* before Begin, "open" after Begin or a buffered write, "committed",
\* "rolledback"), req holds the call just made and resp what it returned.
TxKeys == {1001, 1002}             \* account1ID, account2ID of the tests
TxValues == {Str(1000, TestFracDigits), Str(1, TestFracDigits)}
                                   \* initialBalance, transferAmountStr

Call(op, k, v) == [op |-> op, key |-> k, value |-> v]
NoCall == Call("none", 0, Str(0, 0))
\* (Value, error) of a call; calls that return only an error leave value ""
Result(v, err) == [value |-> v, err |-> err]
NoResult == Result(Str(0, 0), FALSE)

\* (variant: the store is asked first, the overlay only for keys it lacks)
TxGet_StoreFirst(store, t, k) ==
    IF k \in DOMAIN store THEN StorageGet(store, k)
    ELSE IF k \in DOMAIN t.transactions /\ t.transactions[k] # <<>>
      THEN Result(t.transactions[k][1], FALSE)
      ELSE StorageGet(store, k)

\* InMemoryStorageTransaction.Get
TxGet(store, t, k) ==
    IF k \notin DOMAIN t.transactions \/ t.transactions[k] = <<>>
      THEN StorageGet(store, k)
      ELSE Result(t.transactions[k][1], FALSE)

\* (variant: a key with a buffered write counts as present)
TxDelete_SeesOverlay(store, t, k) ==
    IF k \notin DOMAIN store
         /\ (k \notin DOMAIN t.transactions \/ t.transactions[k] = <<>>)
      THEN [tx |-> t, err |-> TRUE]
      ELSE [tx |-> [t EXCEPT !.transactions = MapSet(t.transactions, k, <<>>)],
            err |-> FALSE]

\* InMemoryStorageTransaction.Delete: the transaction after the call and
\* whether ErrKeyNotFound was returned
TxDelete(store, t, k) ==
    IF k \notin DOMAIN store
      THEN [tx |-> t, err |-> TRUE]
      ELSE [tx |-> [t EXCEPT !.transactions = MapSet(t.transactions, k, <<>>)],
            err |-> FALSE]

\* the orders in which a range loop may visit the keys of a map
Orders(S) ==
    {o \in [1..Cardinality(S) -> S] : \A i, j \in DOMAIN o : o[i] = o[j] => i = j}

\* (variant: the loop returns after its first iteration)
CommitAll_FirstOnly(store, t, o) ==
    IF o = <<>> THEN store ELSE CommitEntry(store, t, Head(o))

\* InMemoryStorageTransaction.Commit: the range loop run over the keys in the
\* order o
RECURSIVE CommitAll(_, _, _)
CommitAll(store, t, o) ==
    IF o = <<>> THEN store
    ELSE CommitAll(CommitEntry(store, t, Head(o)), t, Tail(o))

Returns(c, call, result) ==
    /\ req' = [q \in Procs |-> IF q = c THEN call ELSE NoCall]
    /\ resp' = [q \in Procs |-> IF q = c THEN result ELSE NoResult]

\* tx := store.Begin()
TxBeginCall(c) ==
    /\ pc[c] = "idle"
    /\ tx' = [tx EXCEPT ![c] = BeginTx]
    /\ pc' = [pc EXCEPT ![c] = "open"]
    /\ Returns(c, Call("begin", 0, Str(0, 0)), NoResult)
    /\ UNCHANGED <<data, lock, locals, pending>>

\* store.Get(k)
StoreGetCall(c) ==
    /\ \E k \in TxKeys : Returns(c, Call("store.get", k, Str(0, 0)), StorageGet(data, k))
    /\ UNCHANGED <<data, lock, pc, locals, tx, pending>>

\* (variant: the write goes to the store as well, InMemoryStorage.Set of the
\* store without transactions)
TxSetCall_WriteThrough(c) ==
    /\ pc[c] # "idle"
    /\ \E k \in TxKeys, v \in TxValues, fault \in BOOLEAN :
         /\ Returns(c, Call("set", k, v), Result(Str(0, 0), fault))
         /\ IF fault
              THEN UNCHANGED <<tx, pc, data>>
              ELSE /\ tx' = [tx EXCEPT ![c] = TxSet(tx[c], k, v)]
                   /\ data' = MapSet(data, k, v)
                   /\ pc' = [pc EXCEPT ![c] = "open"]
    /\ UNCHANGED <<lock, locals, pending>>

\* (variant: the fault is raised after the write was buffered)
TxSetCall_FaultAfterWrite(c) ==
    /\ pc[c] # "idle"
    /\ \E k \in TxKeys, v \in TxValues, fault \in BOOLEAN :
         /\ Returns(c, Call("set", k, v), Result(Str(0, 0), fault))
         /\ tx' = [tx EXCEPT ![c] = TxSet(tx[c], k, v)]
         /\ pc' = [pc EXCEPT ![c] = "open"]
    /\ UNCHANGED <<data, lock, locals, pending>>

\* tx.Set(k, v) through FlakyMemoryTransaction.Set: the injected fault returns
\* before the transaction is reached
TxSetCall(c) ==
    /\ pc[c] # "idle"
    /\ \E k \in TxKeys, v \in TxValues, fault \in BOOLEAN :
         /\ Returns(c, Call("set", k, v), Result(Str(0, 0), fault))
         /\ IF fault
              THEN UNCHANGED <<tx, pc>>
              ELSE /\ tx' = [tx EXCEPT ![c] = TxSet(tx[c], k, v)]
                   /\ pc' = [pc EXCEPT ![c] = "open"]
    /\ UNCHANGED <<data, lock, locals, pending>>

\* tx.Get(k)
TxGetCall(c) ==
    /\ pc[c] # "idle"
    /\ \E k \in TxKeys : Returns(c, Call("get", k, Str(0, 0)), TxGet(data, tx[c], k))
    /\ UNCHANGED <<data, lock, pc, locals, tx, pending>>

\* tx.Delete(k)
TxDeleteCall(c) ==
    /\ pc[c] # "idle"
    /\ \E k \in TxKeys :
         LET d == TxDelete(data, tx[c], k)
         IN  /\ Returns(c, Call("delete", k, Str(0, 0)), Result(Str(0, 0), d.err))
             /\ tx' = [tx EXCEPT ![c] = d.tx]
             /\ pc' = [pc EXCEPT ![c] = IF d.err THEN pc[c] ELSE "open"]
    /\ UNCHANGED <<data, lock, locals, pending>>

\* tx.Commit()
TxCommitCall(c) ==
    /\ pc[c] # "idle"
    /\ \E o \in Orders(DOMAIN tx[c].transactions) :
         data' = CommitAll(data, tx[c], o)
    /\ pc' = [pc EXCEPT ![c] = "committed"]
    /\ Returns(c, Call("commit", 0, Str(0, 0)), NoResult)
    /\ UNCHANGED <<lock, locals, tx, pending>>

\* tx.Rollback()
TxRollbackCall(c) ==
    /\ pc[c] # "idle"
    /\ tx' = [tx EXCEPT ![c] = TxRollback(tx[c])]
    /\ pc' = [pc EXCEPT ![c] = "rolledback"]
    /\ Returns(c, Call("rollback", 0, Str(0, 0)), NoResult)
    /\ UNCHANGED <<data, lock, locals, pending>>

\* NewInMemoryStorage(): an empty store, no transaction begun
InitTx ==
    /\ data = [k \in {} |-> BadStr]
    /\ lock = [w |-> 0, r |-> {}]
    /\ pc = [p \in Procs |-> "idle"]
    /\ req = [p \in Procs |-> NoCall]
    /\ resp = [p \in Procs |-> NoResult]
    /\ sourceBalance = [p \in Procs |-> BadStr]
    /\ destinationBalance = [p \in Procs |-> BadStr]
    /\ newSourceBalance = [p \in Procs |-> 0]
    /\ newDestinationBalance = [p \in Procs |-> 0]
    /\ tx = [p \in Procs |-> NoTx]
    /\ pending = [p \in Procs |-> {}]

NextTx ==
    \E c \in Procs :
        \/ TxBeginCall(c)
        \/ StoreGetCall(c)
        \/ TxSetCall(c)
        \/ TxGetCall(c)
        \/ TxDeleteCall(c)
        \/ TxCommitCall(c)
        \/ TxRollbackCall(c)

SpecTx == InitTx /\ [][NextTx]_vars

\* caller c has just made the call op
Called(c, op) == req[c].op = op

Buffered(c, k) == k \in DOMAIN tx[c].transactions
BufferedWrite(c, k) == Buffered(c, k) /\ tx[c].transactions[k] # <<>>
Tombstone(c, k) == Buffered(c, k) /\ tx[c].transactions[k] = <<>>
NothingBuffered == NoTx.transactions

\* ---- C12 --------------------------------------------------------------------
\* C12: the store changes only in a Commit call, so Set, Delete, Get,
\* Rollback and a transaction that is never resolved leave it as it was; the
\* store's Get returns what the store holds, and so does the Get of a
\* transaction for every key it has not buffered itself, whatever other
\* transactions have buffered.
C12_BufferedWritesInvisible ==
    /\ [][data' # data => \E c \in Procs : Called(c, "commit")']_vars
    /\ [][\A c \in Procs :
            /\ Called(c, "store.get")' =>
                  resp'[c] = (IF req'[c].key \in DOMAIN data
                                THEN Result(data[req'[c].key], FALSE)
                                ELSE Result(Str(0, 0), TRUE))
            /\ (Called(c, "get")' /\ ~Buffered(c, req'[c].key)) =>
                  resp'[c] = (IF req'[c].key \in DOMAIN data
                                THEN Result(data[req'[c].key], FALSE)
                                ELSE Result(Str(0, 0), TRUE))]_vars

\* one transaction holds an uncommitted write of a key and the Get of the
\* other transaction has just returned NotFound for that key
C12_Witness ==
    \E c \in Procs, d \in Procs :
        /\ c # d /\ pc[c] = "open"
        /\ Called(d, "get") /\ resp[d].err
        /\ BufferedWrite(c, req[d].key)

\* ---- C13 --------------------------------------------------------------------
\* C13: a successful Set(k, v) leaves v buffered for k; the buffer of a
\* transaction is changed only by its own Set, Delete and Rollback; Get(k)
\* returns the buffered value of k whatever the store holds, and for a key
\* with no buffered entry exactly what the store's Get(k) returns.
C13_ReadYourWrites ==
    [][\A c \in Procs :
         /\ (Called(c, "set")' /\ ~resp'[c].err) =>
               tx'[c].transactions[req'[c].key] = <<req'[c].value>>
         /\ ~(Called(c, "set")' \/ Called(c, "delete")'
                \/ Called(c, "rollback")' \/ Called(c, "begin")') =>
               tx'[c] = tx[c]
         /\ (Called(c, "get")' /\ BufferedWrite(c, req'[c].key)) =>
               resp'[c] = Result(tx[c].transactions[req'[c].key][1], FALSE)
         /\ (Called(c, "get")' /\ ~Buffered(c, req'[c].key)) =>
               resp'[c] = StorageGet(data, req'[c].key)]_vars

\* Get has returned the buffered value of a key for which the store holds
\* another value
C13_Witness ==
    \E c \in Procs :
        /\ Called(c, "get") /\ pc[c] = "open"
        /\ BufferedWrite(c, req[c].key)
        /\ req[c].key \in DOMAIN data
        /\ data[req[c].key] # tx[c].transactions[req[c].key][1]
        /\ resp[c] = Result(tx[c].transactions[req[c].key][1], FALSE)

\* ---- C14 --------------------------------------------------------------------
\* C14: Get(k) on a transaction that holds a tombstone for k (Delete(k)
\* succeeded, no Set(k, _) since) returns NotFound.
C14_GetAfterDeleteNotFound ==
    [][\A c \in Procs :
         (Called(c, "get")' /\ Tombstone(c, req'[c].key)) => resp'[c].err]_vars

\* ---- C15 --------------------------------------------------------------------
\* C15: Delete(k) returns NotFound and leaves the overlay unchanged when the
\* store does not hold k, also when the transaction holds a buffered write of
\* k; when the store holds k it buffers a tombstone and changes no other
\* entry; after Commit every key with a tombstone is absent from the store.
C15_Delete ==
    [][\A c \in Procs :
         /\ Called(c, "delete")' =>
               IF req'[c].key \notin DOMAIN data
                 THEN resp'[c].err /\ tx' = tx
                 ELSE /\ ~resp'[c].err
                      /\ tx'[c].transactions =
                            MapSet(tx[c].transactions, req'[c].key, <<>>)
         /\ Called(c, "commit")' =>
               \A k \in TxKeys : Tombstone(c, k) => k \notin DOMAIN data']_vars

\* Delete has failed on a key that only has a buffered write, and the other
\* transaction has committed a tombstone
C15_Witness ==
    \E c \in Procs, d \in Procs :
        /\ c # d
        /\ Called(c, "delete") /\ resp[c].err
        /\ BufferedWrite(c, req[c].key)
        /\ pc[d] = "committed"
        /\ \E k \in TxKeys : Tombstone(d, k) /\ k \notin DOMAIN data

\* ---- C16 --------------------------------------------------------------------
\* C16: after Commit the store holds, for every key with a buffered write,
\* the value buffered last; every key with a tombstone is absent; every other
\* key is as before; this whatever order the loop visits the entries in.
C16_CommitAppliesOverlay ==
    [][\A c \in Procs :
         Called(c, "commit")' =>
            \A k \in TxKeys :
               /\ BufferedWrite(c, k) =>
                     (k \in DOMAIN data' /\ data'[k] = tx[c].transactions[k][1])
               /\ Tombstone(c, k) => k \notin DOMAIN data'
               /\ ~Buffered(c, k) =>
                     /\ (k \in DOMAIN data') = (k \in DOMAIN data)
                     /\ k \in DOMAIN data => data'[k] = data[k]]_vars

\* a Commit has applied a write of one key and a tombstone of another
C16_Witness ==
    \E c \in Procs :
        /\ Called(c, "commit")
        /\ \E k \in TxKeys, j \in TxKeys :
              /\ BufferedWrite(c, k) /\ data[k] = tx[c].transactions[k][1]
              /\ Tombstone(c, j) /\ j \notin DOMAIN data

\* ---- C17 --------------------------------------------------------------------
\* C17: Rollback empties the overlay and leaves the store alone, also after
\* Commit; a Commit issued on a rolled-back transaction changes nothing in
\* the store.
C17_Rollback ==
    [][\A c \in Procs :
         /\ Called(c, "rollback")' =>
               (tx'[c].transactions = NothingBuffered /\ data' = data)
         /\ (pc[c] = "rolledback" /\ Called(c, "commit")') => data' = data]_vars

\* the only transaction ever begun has committed a write and then rolled
\* back: the store still holds what the commit wrote
C17_Witness ==
    \E c \in Procs :
        /\ Called(c, "rollback") /\ pc[c] = "rolledback"
        /\ \A d \in Procs : d # c => pc[d] = "idle"
        /\ DOMAIN data # {}

\* ---- C19 --------------------------------------------------------------------
\* C19: a Set that fails by the injected fault changes neither the overlay of
\* any transaction nor the store, so a later Get and a later Commit behave as
\* if the Set had not been issued.
C19_FailedSetAppliesNothing ==
    [][\A c \in Procs :
         (Called(c, "set")' /\ resp'[c].err) => (tx' = tx /\ data' = data)]_vars

\* a Set of a key the transaction has not buffered has failed
C19_Witness ==
    \E c \in Procs :
        /\ Called(c, "set") /\ resp[c].err
        /\ pc[c] = "open"
        /\ ~Buffered(c, req[c].key)

\* ---- CreateAccount ----------------------------------------------------------
\* The service from an empty store: accounts are created by POST /accounts,
\* a handler serves one request after another, createAccount and transfer
\* requests arrive in any order and interleave.

MaxStored == 4                      \* accounts are created while the stored
                                    \* total stays within this
StatusConflict == 409
MsgInvalidInitialBalance == "Invalid Initial Balance"
MsgCreateWrite == "simulated storage failure for account"

AccountRequest(id, b) == [op |-> "create", id |-> id, initial_balance |-> b]
InitialBalanceStrings ==
    {BadStr} \cup {Str(n, TestFracDigits) : n \in (0 - 1)..InitialBalance}

\* (variant: only the parse error is looked at)
InvalidInitialBalance_ErrOnly(b) == ParseFloat(b).err

\* initialBalanceFloat.Cmp(big.NewFloat(0.0)) < 0 || err != nil, for a string
\* that gave a number
InvalidInitialBalance(b) ==
    LET parsed == ParseFloat(b)
    IN  CmpLess(parsed.f[1], 0) \/ parsed.err

\* the request is decoded and validated before h.lock.Lock(); Cmp is called
\* before err is looked at, so a string that gives no number at all panics
CreateAccount(p) ==
    /\ pc[p] = "idle"
    /\ \E id \in Accounts, b \in InitialBalanceStrings :
         /\ req' = [req EXCEPT ![p] = AccountRequest(id, b)]
         /\ IF ParseFloat(b).f = <<>>
              THEN /\ resp' = [resp EXCEPT ![p] = Response(0, MsgPanic)]
                   /\ pc' = [pc EXCEPT ![p] = "done"]
              ELSE IF InvalidInitialBalance(b)
              THEN /\ resp' = [resp EXCEPT ![p] =
                                 Response(StatusBadRequest, MsgInvalidInitialBalance)]
                   /\ pc' = [pc EXCEPT ![p] = "done"]
              ELSE /\ TotalBalance + ParseFloat(b).f[1] <= MaxStored
                   /\ resp' = resp
                   /\ pc' = [pc EXCEPT ![p] = "create_lock"]
    /\ UNCHANGED <<data, lock, locals, tx, pending>>

\* h.lock.Lock(); defer h.lock.Unlock()
CreateAccountLock(p) ==
    /\ pc[p] = "create_lock"
    /\ CanLock
    /\ lock' = [lock EXCEPT !.w = p]
    /\ pc' = [pc EXCEPT ![p] = "create_begin"]
    /\ UNCHANGED <<data, req, resp, locals, tx, pending>>

\* tx := h.storage.Begin(); defer tx.Rollback()
CreateAccountBegin(p) ==
    /\ pc[p] = "create_begin"
    /\ tx' = [tx EXCEPT ![p] = BeginTx]
    /\ pc' = [pc EXCEPT ![p] = "create_set"]
    /\ UNCHANGED <<data, lock, req, resp, locals, pending>>

\* (variant: the failure path returns without the deferred Rollback)
CreateAccountSet_NoDefer(p) ==
    /\ pc[p] = "create_set"
    /\ \E fault \in BOOLEAN :
         IF fault
           THEN /\ resp' = [resp EXCEPT ![p] =
                              Response(StatusConflict, MsgCreateWrite)]
                /\ pc' = [pc EXCEPT ![p] = "unlock"]
                /\ UNCHANGED <<tx, pending>>
           ELSE /\ tx' = [tx EXCEPT ![p] =
                            TxSet(tx[p], req[p].id,
                                  Sprintf(ParseFloat(req[p].initial_balance).f[1]))]
                /\ pending' = [pending EXCEPT ![p] = DOMAIN tx'[p].transactions]
                /\ pc' = [pc EXCEPT ![p] = "commit"]
                /\ UNCHANGED resp
    /\ UNCHANGED <<data, lock, req, locals>>

\* err = tx.Set(req.AccountId, initialBalanceStr): on the fault 409 is
\* written and the handler returns through its deferred calls; otherwise the
\* write is buffered and tx.Commit() comes next
CreateAccountSet(p) ==
    /\ pc[p] = "create_set"
    /\ \E fault \in BOOLEAN :
         IF fault
           THEN /\ resp' = [resp EXCEPT ![p] =
                              Response(StatusConflict, MsgCreateWrite)]
                /\ pc' = [pc EXCEPT ![p] = "rollback"]
                /\ UNCHANGED <<tx, pending>>
           ELSE /\ tx' = [tx EXCEPT ![p] =
                            TxSet(tx[p], req[p].id,
                                  Sprintf(ParseFloat(req[p].initial_balance).f[1]))]
                /\ pending' = [pending EXCEPT ![p] = DOMAIN tx'[p].transactions]
                /\ pc' = [pc EXCEPT ![p] = "commit"]
                /\ UNCHANGED resp
    /\ UNCHANGED <<data, lock, req, locals>>

\* the response is sent and the handler is ready for its next request
Return(p) ==
    /\ pc[p] = "done"
    /\ pc' = [pc EXCEPT ![p] = "idle"]
    /\ req' = [req EXCEPT ![p] = NoRequest]
    /\ resp' = [resp EXCEPT ![p] = NoResponse]
    /\ UNCHANGED <<data, lock, locals, tx, pending>>

\* api.NewAccountHandlers over storage.NewInMemoryStorage()
InitApi ==
    /\ data = [k \in {} |-> BadStr]
    /\ lock = [w |-> 0, r |-> {}]
    /\ pc = [p \in Procs |-> "idle"]
    /\ req = [p \in Procs |-> NoRequest]
    /\ resp = [p \in Procs |-> NoResponse]
    /\ sourceBalance = [p \in Procs |-> BadStr]
    /\ destinationBalance = [p \in Procs |-> BadStr]
    /\ newSourceBalance = [p \in Procs |-> 0]
    /\ newDestinationBalance = [p \in Procs |-> 0]
    /\ tx = [p \in Procs |-> NoTx]
    /\ pending = [p \in Procs |-> {}]

NextApi ==
    \E p \in Procs :
        \/ CreateAccount(p)
        \/ CreateAccountLock(p)
        \/ CreateAccountBegin(p)
        \/ CreateAccountSet(p)
        \/ SubmitTransaction(p)
        \/ Lock(p)
        \/ GetSource(p)
        \/ GetDestination(p)
        \/ CheckFunds(p)
        \/ Begin(p)
        \/ SetSource(p)
        \/ SetDestination(p)
        \/ Commit(p)
        \/ WriteHeader(p)
        \/ Rollback(p)
        \/ Unlock(p)
        \/ Return(p)

SpecApi == InitApi /\ [][NextApi]_vars

IsCreate(p) == req[p].op = "create"
StoredBalance(k) == ParseFloat(data[k])

\* ---- C18 --------------------------------------------------------------------
\* C18: a transfer or createAccount whose transaction was begun reaches its
\* return only through the deferred Rollback of that transaction: the step
\* that brings it to the deferred Unlock is the Rollback step, which leaves
\* the overlay empty, and it returns only from there; this on success and on
\* a failed source, destination or createAccount write.
C18_RollbackOnEveryExit ==
    [][\A p \in Procs :
         /\ (tx[p].begun /\ pc'[p] = "unlock" /\ pc[p] # "unlock") =>
               (pc[p] = "rollback" /\ tx'[p].transactions = NothingBuffered)
         /\ (tx[p].begun /\ pc'[p] \in {"done", "idle"} /\ pc'[p] # pc[p]) =>
               pc[p] = "unlock"]_vars

\* a createAccount whose write failed has run its Rollback and is about to
\* return, after a transfer whose destination write failed has returned
C18_Witness ==
    \E p \in Procs, q \in Procs :
        /\ IsCreate(p) /\ pc[p] = "unlock" /\ tx[p].begun
        /\ resp[p].code = StatusConflict
        /\ IsTransfer(q) /\ pc[q] = "done"
        /\ resp[q] = Response(StatusInternalServerError, MsgDestinationWrite)

\* ---- C20 --------------------------------------------------------------------
\* C20: from an empty store, changed by createAccount and transfer requests
\* in any interleaving and with injected write failures, every stored
\* balance is a number and is not negative.
C20_BalancesNonNegative ==
    \A k \in DOMAIN data :
        /\ StoredBalance(k).f # <<>>
        /\ ~CmpLess(StoredBalance(k).f[1], 0)

\* a transfer of the whole source balance has succeeded: the source account
\* holds zero and the destination more than it was created with
C20_Witness ==
    \E p \in Procs :
        /\ IsTransfer(p) /\ pc[p] = "done" /\ resp[p].code = StatusOK
        /\ data[req[p].src] = Sprintf(0)
        /\ CmpLess(InitialBalance, StoredBalance(req[p].dst).f[1])

IsGet(p) == req[p].op = "get"
\* the handler of getAccount p has written its response
Answered(p) == IsGet(p) /\ pc[p] \in {"runlock", "done"}

\* ---- C21 --------------------------------------------------------------------
\* C21: getAccount answers with the balance string exactly as the store
\* holds it, or with NotFound when the store has no such id; no step of a
\* getAccount changes the store; two getAccount calls for the same id, with
\* no transfer in between, give the same answer.
C21_GetAccountVerbatim ==
    /\ [][\A p \in Procs :
            /\ (pc[p] = "read_account" /\ pc'[p] = "runlock") =>
                  resp'[p] = (IF req[p].src \in DOMAIN data
                                THEN [code |-> StatusOK, msg |-> "",
                                      body |-> <<data[req[p].src]>>]
                                ELSE Response(StatusNotFound, "key not found"))
            /\ (req'[p].op = "get" /\ Moved(p)) => data' = data]_vars
    /\ [](\A p \in Procs, q \in Procs :
            (Answered(p) /\ Answered(q) /\ req[p].src = req[q].src)
                => resp[p] = resp[q])

\* two getAccount calls for the same account have both returned its stored
\* balance string
C21_Witness ==
    \E p \in Procs, q \in Procs :
        /\ p # q /\ Answered(p) /\ Answered(q)
        /\ pc[p] = "done" /\ pc[q] = "done"
        /\ req[p].src = req[q].src /\ req[p].src \in DOMAIN data
        /\ resp[p].code = StatusOK /\ resp[q].body = <<data[req[p].src]>>

\* ---- C26 --------------------------------------------------------------------
\* C26: while a getAccount holds the guard for reading no transfer holds it
\* for writing and no Commit loop has applied one of its two entries and not
\* the other; the read of the store happens in such a state.
C26_NoPartialCommitRead ==
    /\ [](lock.r # {} => (lock.w = 0 /\ \A q \in Procs : ~MidCommit(q)))
    /\ [][\A p \in Procs :
            (pc[p] = "read_account" /\ pc'[p] = "runlock") =>
                \A q \in Procs : ~MidCommit(q)]_vars

\* a getAccount has read the balance that a transfer committed on its source
\* account
C26_Witness ==
    \E p \in Procs, q \in Procs :
        /\ IsGet(p) /\ pc[p] = "runlock"
        /\ IsTransfer(q) /\ Succeeded(q)
        /\ req[p].src = req[q].src
        /\ resp[p].body = <<Sprintf(InitialBalance - Amount(q))>>

\* ---- C28 --------------------------------------------------------------------
\* C28: whenever the response of a transfer holds the server error of a
\* failed leg write, the Rollback of its transaction has already run.
C28_RollbackBeforeError ==
    \A p \in Procs :
        (IsTransfer(p) /\ resp[p].code = StatusInternalServerError)
            => pc[p] \in {"unlock", "done"}

\* ---- C22 --------------------------------------------------------------------
\* C22: a createAccount whose initial balance is negative or is no number
\* has returned 400 without taking the guard and without a transaction.
C22_InvalidBalanceRejected ==
    \A p \in Procs :
        (/\ IsCreate(p)
         /\ LET parsed == ParseFloat(req[p].initial_balance)
            IN  parsed.err \/ CmpLess(parsed.f[1], 0))
        => /\ pc[p] = "done"
           /\ resp[p].code = StatusBadRequest
           /\ lock.w # p
           /\ tx[p] = NoTx

\* ---- CreateAccount on the relational backend --------------------------------
\* the handlers of SpecApi over SqliteStorage: Set is INSERT OR REPLACE inside
\* the sql.Tx, Commit applies the statements or returns an error
NextApiSql ==
    \E p \in Procs :
        \/ CreateAccount(p)
        \/ CreateAccountLock(p)
        \/ CreateAccountBegin(p)
        \/ CreateAccountSet(p)
        \/ SubmitTransaction(p)
        \/ Lock(p)
        \/ GetSource(p)
        \/ GetDestination(p)
        \/ CheckFunds(p)
        \/ Begin(p)
        \/ SetSource(p)
        \/ SetDestination(p)
        \/ SqlCommit(p)
        \/ WriteHeader(p)
        \/ Rollback(p)
        \/ Unlock(p)
        \/ Return(p)

SpecApiSql == InitApi /\ [][NextApiSql]_vars

\* ---- C23 --------------------------------------------------------------------
\* C23: a createAccount that finds its id in the store when it writes fails:
\* its Set is refused, it reports an error and never commits, and the balance
\* stored for the id stays as it is.
C23_DuplicateCreateFails ==
    [][\A p \in Procs :
         (IsCreate(p) /\ req[p].id \in DOMAIN data) =>
            /\ (pc[p] = "create_set" /\ pc'[p] # "create_set") =>
                  (pc'[p] = "rollback" /\ resp'[p].code # StatusOK)
            /\ pc[p] \in {"create_set", "commit"} =>
                  data'[req[p].id] = data[req[p].id]]_vars

\* ---- C27 --------------------------------------------------------------------
\* C27: once a transaction has committed, a Set, a Delete or another Commit
\* called on it leaves the store as it is, also when other transactions have
\* committed in the meantime.
C27_CommittedIsTerminal ==
    [][\A c \in Procs :
         (/\ pc[c] = "committed"
          /\ Called(c, "set")' \/ Called(c, "delete")' \/ Called(c, "commit")')
         => data' = data]_vars

\* ---- C29 --------------------------------------------------------------------
\* the places of a handler outside h.lock.Lock() ... h.lock.Unlock()
OutsideGuard == {"idle", "lock", "create_lock", "done"}

\* C29: a transfer or createAccount holds the guard exactly between its Lock
\* and its deferred Unlock, so never after it has returned; the guard is
\* given up only by that Unlock, as the last step before the return, and when
\* a transaction was begun only after its Commit loop has ended and its
\* Rollback has emptied the overlay.
C29_GuardReleased ==
    /\ [](\A p \in Procs : (lock.w = p) <=> (pc[p] \notin OutsideGuard))
    /\ [][\A p \in Procs :
            (lock.w = p /\ lock'.w # p) =>
               /\ pc[p] = "unlock" /\ pc'[p] = "done"
               /\ tx[p].begun =>
                     (tx[p].transactions = NothingBuffered /\ pending[p] = {})]_vars

\* a transfer refused for insufficient funds, after it had the guard, has
\* returned, and the other request holds the guard with its transaction begun
C29_Witness ==
    \E p \in Procs, q \in Procs :
        /\ pc[p] = "done" /\ resp[p].msg = MsgInsufficientFunds
        /\ lock.w = q /\ tx[q].begun

\* ---- transfers over disjoint pairs of accounts ------------------------------
\* The consistency test with room for two transfers that have no account in
\* common: twice as many accounts, all holding initialBalance.
WideAccounts == 1..(2 * NumAccounts)

\* SubmitTransaction for requests that name any two of these accounts
SubmitTransactionWide(p) ==
    /\ pc[p] = "idle"
    /\ \E s \in WideAccounts, d \in WideAccounts, a \in AmountStrings :
         LET r == TransactionRequest(s, d, a)
         IN  /\ req' = [req EXCEPT ![p] = r]
             /\ IF InvalidAmount(a)
                  THEN /\ resp' = [resp EXCEPT ![p] =
                                     Response(StatusBadRequest, MsgInvalidAmount)]
                       /\ pc' = [pc EXCEPT ![p] = "done"]
                  ELSE IF SameAccount(r)
                  THEN /\ resp' = [resp EXCEPT ![p] =
                                     Response(StatusBadRequest, MsgSameAccount)]
                       /\ pc' = [pc EXCEPT ![p] = "done"]
                  ELSE /\ resp' = resp
                       /\ pc' = [pc EXCEPT ![p] = "lock"]
    /\ UNCHANGED <<data, lock, locals, tx, pending>>

InitWide ==
    /\ data = [k \in WideAccounts |-> Str(InitialBalance, TestFracDigits)]
    /\ lock = [w |-> 0, r |-> {}]
    /\ pc = [p \in Procs |-> "idle"]
    /\ req = [p \in Procs |-> NoRequest]
    /\ resp = [p \in Procs |-> NoResponse]
    /\ sourceBalance = [p \in Procs |-> BadStr]
    /\ destinationBalance = [p \in Procs |-> BadStr]
    /\ newSourceBalance = [p \in Procs |-> 0]
    /\ newDestinationBalance = [p \in Procs |-> 0]
    /\ tx = [p \in Procs |-> NoTx]
    /\ pending = [p \in Procs |-> {}]

NextWide ==
    \E p \in Procs :
        \/ SubmitTransactionWide(p)
        \/ Lock(p)
        \/ GetSource(p)
        \/ GetDestination(p)
        \/ CheckFunds(p)
        \/ Begin(p)
        \/ SetSource(p)
        \/ SetDestination(p)
        \/ Commit(p)
        \/ WriteHeader(p)
        \/ Rollback(p)
        \/ Unlock(p)

SpecWide == InitWide /\ [][NextWide]_vars

Backends == {"memory", "sqlite"}
Stores == UNION {[S -> TxValues] : S \in SUBSET TxKeys}

ErrNil == "nil"
ErrKeyNotFound == "ErrKeyNotFound"
ErrTxDone == "sql.ErrTxDone"
Outcome(v, err) == [value |-> v, err |-> err]
\* only an error is returned
OnlyErr(err) == Outcome(Str(0, 0), err)
\* (Value, error) of the Get methods, which know no error but ErrKeyNotFound
GetOutcome(r) == Outcome(r.value, IF r.err THEN ErrKeyNotFound ELSE ErrNil)

\* SELECT value FROM kv_store WHERE key = ? inside the sql.Tx: the table as
\* the statements of the transaction have left it
SqlTxGet(store, t, k) == StorageGet(SqlApply(store, t), k)

\* DELETE FROM kv_store WHERE key = ? inside the sql.Tx, ErrKeyNotFound when
\* no row was affected
SqlTxDelete(store, t, k) ==
    IF k \in DOMAIN SqlApply(store, t)
      THEN [tx |-> [t EXCEPT !.transactions = MapSet(t.transactions, k, <<>>)],
            err |-> FALSE]
      ELSE [tx |-> t, err |-> TRUE]

\* tx.Set(k, v) on both
BothSet ==
    \E k \in TxKeys, v \in TxValues :
        /\ req' = Call("set", k, v)
        /\ tx' = [b \in Backends |->
                    IF b = "sqlite" /\ pc[b] = "done" THEN tx[b]
                    ELSE TxSet(tx[b], k, v)]
        /\ resp' = [b \in Backends |->
                      IF b = "sqlite" /\ pc[b] = "done" THEN OnlyErr(ErrTxDone)
                      ELSE OnlyErr(ErrNil)]
        /\ UNCHANGED <<data, pc, lock, locals, pending>>

\* tx.Get(k) on both
BothGet ==
    \E k \in TxKeys :
        /\ req' = Call("get", k, Str(0, 0))
        /\ resp' = [b \in Backends |->
                      IF b = "memory" THEN GetOutcome(TxGet(data[b], tx[b], k))
                      ELSE IF pc[b] = "done" THEN OnlyErr(ErrTxDone)
                      ELSE GetOutcome(SqlTxGet(data[b], tx[b], k))]
        /\ UNCHANGED <<data, tx, pc, lock, locals, pending>>

\* tx.Delete(k) on both
BothDelete ==
    \E k \in TxKeys :
        LET mem == TxDelete(data["memory"], tx["memory"], k)
            sql == SqlTxDelete(data["sqlite"], tx["sqlite"], k)
        IN  /\ req' = Call("delete", k, Str(0, 0))
            /\ tx' = [b \in Backends |->
                        IF b = "memory" THEN mem.tx
                        ELSE IF pc[b] = "done" THEN tx[b] ELSE sql.tx]
            /\ resp' = [b \in Backends |->
                          IF b = "memory"
                            THEN OnlyErr(IF mem.err THEN ErrKeyNotFound ELSE ErrNil)
                          ELSE IF pc[b] = "done" THEN OnlyErr(ErrTxDone)
                          ELSE OnlyErr(IF sql.err THEN ErrKeyNotFound ELSE ErrNil)]
            /\ UNCHANGED <<data, pc, lock, locals, pending>>

\* tx.Commit() on both: the range loop over the overlay, and the COMMIT of
\* the sql.Tx, which is done from then on
BothCommit ==
    /\ req' = Call("commit", 0, Str(0, 0))
    /\ \E o \in Orders(DOMAIN tx["memory"].transactions) :
         data' = [b \in Backends |->
                    IF b = "memory" THEN CommitAll(data[b], tx[b], o)
                    ELSE IF pc[b] = "done" THEN data[b]
                    ELSE SqlApply(data[b], tx[b])]
    /\ resp' = [b \in Backends |->
                  IF b = "sqlite" /\ pc[b] = "done" THEN OnlyErr(ErrTxDone)
                  ELSE OnlyErr(ErrNil)]
    /\ tx' = [b \in Backends |->
                IF b = "sqlite" /\ pc[b] = "open" THEN TxRollback(tx[b]) ELSE tx[b]]
    /\ pc' = [b \in Backends |-> IF b = "sqlite" THEN "done" ELSE pc[b]]
    /\ UNCHANGED <<lock, locals, pending>>

\* tx.Rollback() on both: clear(tx.transactions), and the ROLLBACK of the
\* sql.Tx, which is done from then on
BothRollback ==
    /\ req' = Call("rollback", 0, Str(0, 0))
    /\ tx' = [b \in Backends |-> TxRollback(tx[b])]
    /\ resp' = [b \in Backends |->
                  IF b = "sqlite" /\ pc[b] = "done" THEN OnlyErr(ErrTxDone)
                  ELSE OnlyErr(ErrNil)]
    /\ pc' = [b \in Backends |-> IF b = "sqlite" THEN "done" ELSE pc[b]]
    /\ UNCHANGED <<data, lock, locals, pending>>

\* both stores hold the same rows and a transaction was begun on each
InitBoth ==
    /\ \E store \in Stores : data = [b \in Backends |-> store]
    /\ tx = [b \in Backends |-> BeginTx]
    /\ pc = [b \in Backends |-> "open"]
    /\ req = NoCall
    /\ resp = [b \in Backends |-> OnlyErr(ErrNil)]
    /\ lock = [w |-> 0, r |-> {}]
    /\ sourceBalance = [p \in Procs |-> BadStr]
    /\ destinationBalance = [p \in Procs |-> BadStr]
    /\ newSourceBalance = [p \in Procs |-> 0]
    /\ newDestinationBalance = [p \in Procs |-> 0]
    /\ pending = [p \in Procs |-> {}]

NextBoth == BothSet \/ BothGet \/ BothDelete \/ BothCommit \/ BothRollback

SpecBoth == InitBoth /\ [][NextBoth]_vars

\* ---- C24 --------------------------------------------------------------------
\* C24: after every call of a sequence of Set, Get, Delete, Commit and
\* Rollback calls given to one transaction of each backend, begun on equal
\* stores, both have returned the same value and the same error and both
\* stores hold the same contents.
C24_BackendsAgree ==
    /\ resp["memory"] = resp["sqlite"]
    /\ data["memory"] = data["sqlite"]

\* ---- every request returns --------------------------------------------------
\* The requests of the consistency test together with createAccount and
\* getAccount requests, each goroutine being scheduled again and again until
\* its handler has returned.
NextLive ==
    \E p \in Procs :
        \/ SubmitTransaction(p)
        \/ CreateAccount(p)
        \/ GetAccount(p)
        \/ Lock(p)
        \/ GetSource(p)
        \/ GetDestination(p)
        \/ CheckFunds(p)
        \/ Begin(p)
        \/ SetSource(p)
        \/ SetDestination(p)
        \/ Commit(p)
        \/ WriteHeader(p)
        \/ Rollback(p)
        \/ Unlock(p)
        \/ CreateAccountLock(p)
        \/ CreateAccountBegin(p)
        \/ CreateAccountSet(p)
        \/ RLock(p)
        \/ ReadAccount(p)
        \/ RUnlock(p)

\* the steps of a handler once its request has arrived
Handler(p) ==
    \/ Lock(p) \/ GetSource(p) \/ GetDestination(p) \/ CheckFunds(p)
    \/ Begin(p) \/ SetSource(p) \/ SetDestination(p) \/ Commit(p)
    \/ WriteHeader(p) \/ Rollback(p) \/ Unlock(p)
    \/ CreateAccountLock(p) \/ CreateAccountBegin(p) \/ CreateAccountSet(p)
    \/ RLock(p) \/ ReadAccount(p) \/ RUnlock(p)

LiveSpec ==
    Init /\ [][NextLive]_vars /\ \A p \in Procs : WF_vars(Handler(p))

\* ---- C30 --------------------------------------------------------------------
\* C30: every transfer, createAccount and getAccount that was submitted
\* eventually has returned with a result written to its response.
C30_EveryRequestReturns ==
    \A p \in Procs :
        (pc[p] # "idle") ~> (pc[p] = "done" /\ resp[p] # NoResponse
                               /\ resp[p].msg # MsgPanic)

\* ---- stored balances that are no decimals -----------------------------------
\* The store is filled through Storage directly, as the tests do, with
\* strings nobody validated: every account holds initialBalance or a string
\* that is no decimal.
InitStored ==
    /\ data \in [Accounts -> {Str(InitialBalance, TestFracDigits), BadStr}]
    /\ lock = [w |-> 0, r |-> {}]
    /\ pc = [p \in Procs |-> "idle"]
    /\ req = [p \in Procs |-> NoRequest]
    /\ resp = [p \in Procs |-> NoResponse]
    /\ sourceBalance = [p \in Procs |-> BadStr]
    /\ destinationBalance = [p \in Procs |-> BadStr]
    /\ newSourceBalance = [p \in Procs |-> 0]
    /\ newDestinationBalance = [p \in Procs |-> 0]
    /\ tx = [p \in Procs |-> NoTx]
    /\ pending = [p \in Procs |-> {}]

SpecStored == InitStored /\ [][Next]_vars

\* ---- C31 --------------------------------------------------------------------
\* C31: a transfer that has read a source or destination balance which is
\* no decimal answers 400 with the invalid-amount error, begins no
\* transaction and leaves the store as it is.
C31_UnparsableStoredBalance ==
    [][\A p \in Procs :
         (/\ pc[p] = "check_funds" /\ pc'[p] # "check_funds"
          /\ ParseFloat(sourceBalance[p]).err
               \/ ParseFloat(destinationBalance[p]).err)
         => /\ resp'[p] = Response(StatusBadRequest, MsgInvalidAmount)
            /\ pc'[p] = "unlock"
            /\ tx'[p] = NoTx
            /\ data' = data]_vars

\* ---- SqliteStorage.Begin may fail -------------------------------------------
\* db.DB.Begin() returns an error: SqliteStorage.Begin logs it and returns
\* nil, and the handler's next statement, defer tx.Rollback(), calls a method
\* of the nil StorageTransaction: it panics, the deferred Unlock runs, nothing
\* is written to the response
SqlBegin(p) ==
    /\ pc[p] = "begin"
    /\ \E err \in BOOLEAN :
         IF err
           THEN /\ resp' = [resp EXCEPT ![p] = Response(0, MsgPanic)]
                /\ pc' = [pc EXCEPT ![p] = "unlock"]
                /\ UNCHANGED tx
           ELSE /\ tx' = [tx EXCEPT ![p] = BeginTx]
                /\ pc' = [pc EXCEPT ![p] = "set_source"]
                /\ UNCHANGED resp
    /\ UNCHANGED <<data, lock, req, locals, pending>>

\* the same in CreateAccount
SqlCreateAccountBegin(p) ==
    /\ pc[p] = "create_begin"
    /\ \E err \in BOOLEAN :
         IF err
           THEN /\ resp' = [resp EXCEPT ![p] = Response(0, MsgPanic)]
                /\ pc' = [pc EXCEPT ![p] = "unlock"]
                /\ UNCHANGED tx
           ELSE /\ tx' = [tx EXCEPT ![p] = BeginTx]
                /\ pc' = [pc EXCEPT ![p] = "create_set"]
                /\ UNCHANGED resp
    /\ UNCHANGED <<data, lock, req, locals, pending>>

NextSqlBegin ==
    \E p \in Procs :
        \/ CreateAccount(p)
        \/ CreateAccountLock(p)
        \/ SqlCreateAccountBegin(p)
        \/ CreateAccountSet(p)
        \/ SubmitTransaction(p)
        \/ Lock(p)
        \/ GetSource(p)
        \/ GetDestination(p)
        \/ CheckFunds(p)
        \/ SqlBegin(p)
        \/ SetSource(p)
        \/ SetDestination(p)
        \/ SqlCommit(p)
        \/ WriteHeader(p)
        \/ Rollback(p)
        \/ Unlock(p)
        \/ Return(p)

SpecSqlBegin == InitApi /\ [][NextSqlBegin]_vars

\* ---- C32 --------------------------------------------------------------------
\* C32: when Begin fails in a transfer or a createAccount, the request is
\* answered with a server error, goes on to release the guard and the store
\* stays as it is.
C32_BeginFailureReported ==
    [][\A p \in Procs :
         (/\ pc[p] \in {"begin", "create_begin"} /\ pc'[p] # pc[p]
          /\ ~tx'[p].begun)
         => /\ resp'[p].code = StatusInternalServerError
            /\ pc'[p] = "unlock"
            /\ data' = data]_vars

\* ---- the transfer without the guard -----------------------------------------
\* SubmitTransaction with h.lock.Lock() left out: the handler goes from the
\* validation straight to its first read, the overlay transaction being all
\* that stands between concurrent transfers
SkipLock(p) ==
    /\ pc[p] = "lock"
    /\ pc' = [pc EXCEPT ![p] = "get_source"]
    /\ UNCHANGED <<data, lock, req, resp, locals, tx, pending>>

NextNoGuard ==
    \E p \in Procs :
        \/ SubmitTransaction(p)
        \/ SkipLock(p)
        \/ GetSource(p)
        \/ GetDestination(p)
        \/ CheckFunds(p)
        \/ Begin(p)
        \/ SetSource(p)
        \/ SetDestination(p)
        \/ Commit(p)
        \/ WriteHeader(p)
        \/ Rollback(p)
        \/ Unlock(p)

SpecNoGuard == Init /\ [][NextNoGuard]_vars

\* both requests are the transfer of d from x to y, both have read the
\* balances the test stored, and both have committed and answered 200
BothReadFirst(x, y, d) ==
    \A p \in Procs :
        /\ req[p] = TransactionRequest(x, y, Str(d, TestFracDigits))
        /\ pc[p] \in {"rollback", "unlock"} /\ resp[p].code = StatusOK
        /\ sourceBalance[p] = Str(InitialBalance, TestFracDigits)
        /\ destinationBalance[p] = Str(InitialBalance, TestFracDigits)

\* ---- C33 --------------------------------------------------------------------
\* C33: without the guard, when two transfers of d from X to Y have both
\* read the balances before either committed and both have committed with
\* success, X holds its initial balance less d and Y its initial balance plus
\* d: one of the two updates is lost.
C33_OverlayLosesUpdate ==
    \A x \in Accounts, y \in Accounts, d \in 1..MaxAmount :
        BothReadFirst(x, y, d) =>
            /\ data[x] = Sprintf(InitialBalance - d)
            /\ data[y] = Sprintf(InitialBalance + d)

\* the interleaving exists: both succeeded and only one transfer shows
C33_Witness ==
    \E x \in Accounts, y \in Accounts, d \in 1..MaxAmount :
        /\ BothReadFirst(x, y, d)
        /\ Balance(x) = InitialBalance - d
        /\ Balance(x) # InitialBalance - Cardinality(Procs) * d

\* every request is the transfer of d from x to y and has returned
AllReturned(x, y, d) ==
    \A p \in Procs :
        pc[p] = "done" /\ req[p] = TransactionRequest(x, y, Str(d, TestFracDigits))
\* how many of them returned success
Successes == Cardinality({p \in Procs : resp[p].code = StatusOK})

\* ---- C34 --------------------------------------------------------------------
\* C34: when all concurrent requests are transfers of d from X to Y and all
\* have returned, k of them with success, X holds its initial balance less
\* k*d and Y its initial balance plus k*d, whichever Set calls were made to
\* fail.
C34_AppliedExactlyOncePerSuccess ==
    \A x \in Accounts, y \in Accounts, d \in 1..MaxAmount :
        AllReturned(x, y, d) =>
            /\ Balance(x) = InitialBalance - Successes * d
            /\ Balance(y) = InitialBalance + Successes * d

\* one of the transfers returned success and another the server error of a
\* failed write
C34_Witness ==
    \E x \in Accounts, y \in Accounts, d \in 1..MaxAmount :
        /\ AllReturned(x, y, d)
        /\ Successes = 1
        /\ \E p \in Procs : resp[p].code = StatusInternalServerError

\* ---- C35 --------------------------------------------------------------------
\* the rejection that comes first for request r on the given store, in the
\* order: amount, same account, source missing, destination missing, funds
FirstRejection(r, store) ==
    IF InvalidAmount(r.amount)
      THEN Response(StatusBadRequest, MsgInvalidAmount)
    ELSE IF SameAccount(r)
      THEN Response(StatusBadRequest, MsgSameAccount)
    ELSE IF r.src \notin DOMAIN store
      THEN Response(StatusNotFound, MsgSourceNotFound)
    ELSE IF r.dst \notin DOMAIN store
      THEN Response(StatusNotFound, MsgDestinationNotFound)
    ELSE Response(StatusBadRequest, MsgInsufficientFunds)

\* C35: whenever a transfer writes a client error to its response, it is the
\* first in that order of the rejections that apply to the request on the
\* store as it is then; and a transfer that has come to the funds check has
\* a valid amount, two different accounts, and both are in the store.
C35_FirstRejectionWins ==
    /\ [][\A p \in Procs :
            (/\ req'[p].op = "transfer" /\ resp'[p] # resp[p]
             /\ resp'[p].code \in {StatusBadRequest, StatusNotFound})
            => resp'[p] = FirstRejection(req'[p], data)]_vars
    /\ [](\A p \in Procs :
            (IsTransfer(p) /\ pc[p] = "check_funds") =>
                /\ ~InvalidAmount(req[p].amount) /\ ~SameAccount(req[p])
                /\ {req[p].src, req[p].dst} \subseteq DOMAIN data)

\* a self-transfer on an account that is not in the store was refused as a
\* self-transfer, and a transfer between two accounts that are both missing
\* was refused for its source
C35_Witness ==
    \E p \in Procs, q \in Procs :
        /\ IsTransfer(p) /\ pc[p] = "done"
        /\ req[p].src = req[p].dst /\ req[p].src \notin DOMAIN data
        /\ resp[p] = Response(StatusBadRequest, MsgSameAccount)
        /\ IsTransfer(q) /\ pc[q] = "done"
        /\ req[q].src # req[q].dst
        /\ {req[q].src, req[q].dst} \cap DOMAIN data = {}
        /\ resp[q] = Response(StatusNotFound, MsgSourceNotFound)

====
